---- MODULE Spec2Model ----
(***************************************************************************)
(* InsightHub: the dashboard state controller of src/App.tsx (the App      *)
(* component), the chart form of components/ChartConfigModal               *)
(* (src/unnamed/part_003), the AI assistant modal (src/components/         *)
(* Dashboard.tsx, second half) and the file helper of utils/fileUtils      *)
(* (src/unnamed/part_000).                                                 *)
(*                                                                         *)
(* Every action is one event handler or callback together with the render  *)
(* React performs after it and the effects that render runs: the restore   *)
(* effect (deps [isAuthenticated]) and the autosave effect (deps [charts,  *)
(* dashboardTitle, fileName, data]).  Strings the code inspects (titles,   *)
(* file names, ids) are sequences of one-character strings.                *)
(***************************************************************************)
EXTENDS Integers, Sequences, FiniteSets, TLC

\* ------------------------------------------------------------------ bounds
\* Longest chart list built: under SpecCharts, under the other specifications.
MaxCharts == 2
MaxChartsFew == 1
\* Readings Date.now() takes after its first one.
MaxTicks == 1
\* File reads (FileReader) in flight together, per specification.
MaxPendingLoads == 1
MaxPendingLoadsSession == 2
\* AI requests (getAIInsights) in flight together.
MaxAiRequests == 1
\* First reading of Date.now() in a run.
ClockStart == 9
\* Most rows in an aggregated row set.
MaxRows == 3
\* Most charts in a sorted chart list.
MaxSorted == 3

\* ----------------------------------------------------------------- strings
EmptyStr == <<>>

\* String.prototype.lastIndexOf(ch), 0-based, -1 when absent.
LastIndexOf(s, ch) ==
    LET hits == {i \in 1..Len(s) : s[i] = ch}
    IN  IF hits = {} THEN -1
        ELSE (CHOOSE i \in hits : \A j \in hits : j <= i) - 1

\* String.prototype.substring(0, n): a negative n is taken as 0.
Substring0(s, n) ==
    LET m == IF n < 0 THEN 0 ELSE IF n > Len(s) THEN Len(s) ELSE n
    IN  SubSeq(s, 1, m)

\* utils/fileUtils getFileNameWithoutExtension:
\*   fileName.substring(0, fileName.lastIndexOf('.')) || fileName
getFileNameWithoutExtension(fileName) ==
    LET cut == Substring0(fileName, LastIndexOf(fileName, "."))
    IN  IF cut # EmptyStr THEN cut ELSE fileName

\* Number.prototype.toString() of a natural number, as decimal digits.
Digit(d) == <<"0", "1", "2", "3", "4", "5", "6", "7", "8", "9">>[d + 1]
RECURSIVE NumToString(_)
NumToString(n) ==
    IF n < 10 THEN <<Digit(n)>> ELSE NumToString(n \div 10) \o <<Digit(n % 10)>>

\* Stripping of leading and trailing white space, as String.prototype.trim
\* and the string-to-number conversion do it, over the blank characters the
\* model types.
IsBlank(ch) == ch \in {" ", "\t"}
Trim(s) ==
    LET keep == {i \in 1..Len(s) : ~IsBlank(s[i])}
    IN  IF keep = {} THEN EmptyStr
        ELSE SubSeq(s, CHOOSE i \in keep : \A j \in keep : i <= j,
                       CHOOSE i \in keep : \A j \in keep : j <= i)

\* --------------------------------------------------------------- constants
\* App.tsx useState<string>('Untitled Dashboard')
UntitledDashboard ==
    <<"U","n","t","i","t","l","e","d"," ","D","a","s","h","b","o","a","r","d">>

\* null / absent values are the empty sequence, a present value v is <<v>>.
Null == <<>>
Some(v) == <<v>>

\* types.ts ChartType (closed enumeration).
ChartType == {"Bar", "Line", "Area", "Pie", "Donut", "Scatter"}

\* A chart configuration (types.ts ChartConfig) and an AI suggestion
\* (types.ts ChartSuggestion, without its description).
ChartConfig(i, t, ty, x, y, a) ==
    [id |-> i, title |-> t, type |-> ty, xAxis |-> x, yAxis |-> y,
     aggregation |-> a]
Suggestion(t, ty, x, y, a) ==
    [title |-> t, type |-> ty, xAxis |-> x, yAxis |-> y, aggregation |-> a]

\* ----------------------------------------------------- JavaScript values
\* The values aggregateData handles: numbers (a fraction num/den, NaN being
\* 0/0), strings, undefined, and the function found under an inherited name.
Num(n) == [kind |-> "number", num |-> n, den |-> 1, str |-> EmptyStr]
Str(s) == [kind |-> "string", num |-> 0, den |-> 1, str |-> s]
Undefined == [kind |-> "undefined", num |-> 0, den |-> 1, str |-> EmptyStr]
NaN == [kind |-> "number", num |-> 0, den |-> 0, str |-> EmptyStr]
\* Object.prototype.constructor, and its text when it is added to a number.
ObjectFunction ==
    [kind |-> "function", num |-> 0, den |-> 1,
     str |-> <<"function Object() { [native code] }">>]

isNaN(v) == v.kind = "number" /\ v.den = 0

RECURSIVE GCD(_, _)
GCD(a, b) == IF b = 0 THEN a ELSE GCD(b, a % b)

\* a / b on natural numbers: NaN for 0/0, otherwise the fraction in lowest
\* terms.
Divide(a, b) ==
    IF b = 0 THEN NaN
    ELSE LET g == GCD(a, b) IN
         [kind |-> "number", num |-> a \div g, den |-> b \div g, str |-> EmptyStr]

Digits == {"0", "1", "2", "3", "4", "5", "6", "7", "8", "9"}
DigitValue(ch) == CHOOSE d \in 0..9 : Digit(d) = ch
IsDigits(s) == s # EmptyStr /\ \A i \in 1..Len(s) : s[i] \in Digits
RECURSIVE ParseDigits(_)
ParseDigits(s) ==
    IF s = EmptyStr THEN 0
    ELSE 10 * ParseDigits(SubSeq(s, 1, Len(s) - 1)) + DigitValue(s[Len(s)])

\* String(value), as the group key is computed.
UndefinedText == <<"u", "n", "d", "e", "f", "i", "n", "e", "d">>
StringOf(v) ==
    CASE v.kind = "string" -> v.str
      [] v.kind = "undefined" -> UndefinedText
      [] v.kind = "number" -> NumToString(v.num)
      [] OTHER -> v.str

\* Number(value), as the measure is coerced: a string is stripped of white
\* space, the empty string is 0, digits are their value, any other text and
\* undefined are NaN.
NumberOf(v) ==
    CASE v.kind = "number" -> v
      [] v.kind = "string" ->
            LET t == Trim(v.str) IN
            IF t = EmptyStr THEN Num(0)
            ELSE IF IsDigits(t) THEN Num(ParseDigits(t)) ELSE NaN
      [] OTHER -> NaN

\* An object used as a map: its own entries in the order they were added.
\* A name an empty object inherits from Object.prototype reads as a function
\* until the object has an entry of its own under it.
ConstructorText == <<"c", "o", "n", "s", "t", "r", "u", "c", "t", "o", "r">>
InheritedNames == {ConstructorText}
HasOwn(obj, key) == \E i \in 1..Len(obj) : obj[i].key = key
GetProperty(obj, key) ==
    IF HasOwn(obj, key)
    THEN obj[CHOOSE i \in 1..Len(obj) : obj[i].key = key].value
    ELSE IF key \in InheritedNames THEN ObjectFunction ELSE Undefined
SetProperty(obj, key, value) ==
    IF HasOwn(obj, key)
    THEN [i \in 1..Len(obj) |->
             IF obj[i].key = key THEN [key |-> key, value |-> value] ELSE obj[i]]
    ELSE Append(obj, [key |-> key, value |-> value])

\* The order in which Object.keys and for-in visit own keys: array indices
\* in ascending numeric order first, then the other keys as they were added.
IsArrayIndex(key) == IsDigits(key) /\ (Len(key) = 1 \/ key[1] # "0")
RECURSIVE Ascending(_)
Ascending(S) ==
    IF S = {} THEN <<>>
    ELSE LET m == CHOOSE x \in S : \A y \in S : x <= y
         IN  <<m>> \o Ascending(S \ {m})
OwnKeys(obj) ==
    LET indices == {ParseDigits(obj[i].key) :
                        i \in {j \in 1..Len(obj) : IsArrayIndex(obj[j].key)}}
        sortedIndices == Ascending(indices)
        others == SelectSeq(obj, LAMBDA e : ~IsArrayIndex(e.key))
    IN  [i \in 1..Len(sortedIndices) |-> NumToString(sortedIndices[i])]
        \o [i \in 1..Len(others) |-> others[i].key]

\* a.localeCompare(b) over the characters the model types: blank before
\* digits before letters, letters in alphabetical order whatever their case.
\* Negative, zero or positive.
CollationOrder ==
    <<" ", "0", "1", "2", "3", "4", "5", "6", "7", "8", "9", "a", "b", "c",
      "d", "e", "f", "i", "l", "n", "o", "p", "r", "s", "t", "u", "w">>
Lower(ch) ==
    CASE ch = "E" -> "e" [] ch = "W" -> "w" [] ch = "A" -> "a"
      [] ch = "B" -> "b" [] ch = "D" -> "d" [] ch = "L" -> "l"
      [] ch = "P" -> "p" [] ch = "S" -> "s" [] OTHER -> ch
Rank(ch) == CHOOSE i \in 1..Len(CollationOrder) : CollationOrder[i] = Lower(ch)
RECURSIVE localeCompare(_, _)
localeCompare(a, b) ==
    IF a = EmptyStr /\ b = EmptyStr THEN 0
    ELSE IF a = EmptyStr THEN -1
    ELSE IF b = EmptyStr THEN 1
    ELSE IF Rank(a[1]) # Rank(b[1]) THEN Rank(a[1]) - Rank(b[1])
    ELSE localeCompare(Tail(a), Tail(b))

\* Array.prototype.sort(compare): a stable sort, compared[j][i] being the
\* result of compare on the elements at j and i.  An element comes after the
\* elements that compare less than it and after the elements that compare
\* equal to it and stood before it.
SortedBy(list, compared) ==
    LET n == Len(list)
        Position(i) ==
            1 + Cardinality({j \in 1..n :
                    \/ compared[j][i] < 0
                    \/ compared[j][i] = 0 /\ j < i})
    IN  SubSeq([k \in 1..n |-> list[CHOOSE i \in 1..n : Position(i) = k]], 1, n)

\* ------------------------------------------------------ aggregation engine
\* types.ts AggregationType.
AggregationType == {"Sum", "Count", "Average"}

\* { [k1]: v1, [k2]: v2 }: with k1 = k2 the second value replaces the first.
ObjectLiteral(k1, v1, k2, v2) == [c \in {k1, k2} |-> IF c = k2 THEN v2 ELSE v1]

\* (counts[key] || 0) + 1: a number is counted up; adding 1 to a function or
\* to a non-empty string appends "1" to its text.
Incremented(old) ==
    CASE old.kind = "undefined" -> Num(1)
      [] old.kind = "number" -> IF isNaN(old) THEN Num(1) ELSE Num(old.num + 1)
      [] old.kind = "string" ->
            IF old.str = EmptyStr THEN Num(1) ELSE Str(old.str \o <<"1">>)
      [] OTHER -> Str(old.str \o <<"1">>)

\* counts after the forEach of the frequency branch has visited n rows.
RECURSIVE CountedRows(_, _, _)
CountedRows(data, groupBy, n) ==
    IF n = 0 THEN <<>>
    ELSE LET counts == CountedRows(data, groupBy, n - 1)
             key == StringOf(data[n][groupBy])
         IN  SetProperty(counts, key, Incremented(GetProperty(counts, key)))

\* The frequency branch: Object.keys(counts).map(...).
FrequencyRows(data, groupBy, valueColumn) ==
    LET counts == CountedRows(data, groupBy, Len(data))
        keys == OwnKeys(counts)
    IN  [i \in 1..Len(keys) |->
            ObjectLiteral(groupBy, Str(keys[i]),
                          valueColumn, GetProperty(counts, keys[i]))]

\* grouped after the forEach of the general branch has visited n rows, and
\* whether it threw: under an inherited name grouped[key] is a function, is
\* not replaced by an array, and has no push.
RECURSIVE GroupedRows(_, _, _, _)
GroupedRows(data, groupBy, valueColumn, n) ==
    IF n = 0 THEN [thrown |-> FALSE, grouped |-> <<>>]
    ELSE LET prev == GroupedRows(data, groupBy, valueColumn, n - 1)
             key == StringOf(data[n][groupBy])
             value == NumberOf(data[n][valueColumn])
             own == HasOwn(prev.grouped, key)
             ready == IF own THEN prev.grouped
                      ELSE SetProperty(prev.grouped, key, <<>>)
         IN  IF prev.thrown THEN prev
             ELSE IF ~own /\ key \in InheritedNames
             THEN [thrown |-> ~isNaN(value), grouped |-> prev.grouped]
             ELSE IF isNaN(value) THEN [thrown |-> FALSE, grouped |-> ready]
             ELSE [thrown |-> FALSE,
                   grouped |-> SetProperty(ready, key,
                                   Append(GetProperty(ready, key), value))]

\* values.reduce((acc, val) => acc + val, 0)
RECURSIVE SumOf(_)
SumOf(values) ==
    IF values = <<>> THEN 0 ELSE SumOf(Tail(values)) + Head(values).num

\* The switch on the aggregation.
Reduced(values, aggregation) ==
    CASE aggregation = "Sum" -> Num(SumOf(values))
      [] aggregation = "Count" -> Num(Len(values))
      [] aggregation = "Average" -> Divide(SumOf(values), Len(values))
      [] OTHER -> Num(0)

\* The comparator of the final sort on two group cells: localeCompare when
\* both are strings, otherwise their difference (NaN counting as 0).
CompareGroups(a, b) ==
    IF a.kind = "string" /\ b.kind = "string" THEN localeCompare(a.str, b.str)
    ELSE IF a.kind # "number" \/ b.kind # "number" \/ isNaN(a) \/ isNaN(b) THEN 0
    ELSE a.num * b.den - b.num * a.den

\* aggregateData with or without the line that skips a group whose values
\* are empty.  The result is the rows returned, or thrown.
Aggregated(skipsEmpty, data, groupBy, valueColumn, aggregation) ==
    IF Len(data) = 0 THEN [thrown |-> FALSE, rows |-> <<>>]
    ELSE IF aggregation = "Count" /\ groupBy = valueColumn
    THEN [thrown |-> FALSE, rows |-> FrequencyRows(data, groupBy, valueColumn)]
    ELSE LET g == GroupedRows(data, groupBy, valueColumn, Len(data))
             keys == SelectSeq(OwnKeys(g.grouped),
                         LAMBDA key : ~(skipsEmpty /\
                                        GetProperty(g.grouped, key) = <<>>))
             aggregatedData ==
                 [i \in 1..Len(keys) |->
                     ObjectLiteral(groupBy, Str(keys[i]), valueColumn,
                         Reduced(GetProperty(g.grouped, keys[i]), aggregation))]
         IN  IF g.thrown THEN [thrown |-> TRUE, rows |-> <<>>]
             ELSE [thrown |-> FALSE,
                   rows |-> SortedBy(aggregatedData,
                               [j \in 1..Len(keys) |-> [i \in 1..Len(keys) |->
                                   CompareGroups(aggregatedData[j][groupBy],
                                                 aggregatedData[i][groupBy])]])]

\* utils/dataProcessor.ts, the module ChartWidget imports.
aggregateData(data, groupBy, valueColumn, aggregation) ==
    Aggregated(FALSE, data, groupBy, valueColumn, aggregation)
\* The other copy of the module in the repository, which skips empty groups.
aggregateDataSkippingEmpty(data, groupBy, valueColumn, aggregation) ==
    Aggregated(TRUE, data, groupBy, valueColumn, aggregation)

\* ------------------------------------------------------------- persistence
\* JSON.stringify({charts, fileName, dashboardTitle}): the stored text.
JSONstringify(c, f, t) ==
    [wellFormed |-> TRUE, charts |-> c, fileName |-> f, dashboardTitle |-> t]
\* A stored text JSON.parse throws on.
CorruptText ==
    [wellFormed |-> FALSE, charts |-> <<>>, fileName |-> EmptyStr,
     dashboardTitle |-> EmptyStr]
JSONparseThrows(text) == ~text.wellFormed
JSONparse(text) ==
    [charts |-> text.charts, fileName |-> text.fileName,
     dashboardTitle |-> text.dashboardTitle]

\* ------------------------------------------------------------------ inputs
\* Column names of the uploaded sheets, and a name no sheet has.
ColX == <<"x">>
ColY == <<"y">>
ColQ == <<"q">>

\* The files the user uploads: name, the keys of the first row, row count.
\* FileA and FileC share a name; FileC is a sheet with no rows.
FileA == [name |-> <<"a", ".", "x">>, cols |-> <<ColX>>, nrows |-> 1]
FileB == [name |-> <<"b", ".", "c", ".", "x">>, cols |-> <<ColX, ColY>>, nrows |-> 1]
FileC == [name |-> <<"a", ".", "x">>, cols |-> <<>>, nrows |-> 0]

\* XLSX.utils.sheet_to_json(worksheet): the rows of a file (their columns and
\* their number are all the controller reads).
SheetToJson(file) == [cols |-> file.cols, nrows |-> file.nrows]

\* The credentials typed into the login form.
Credentials == {<<"admin", "admin">>, <<"admin", "wrong">>}

\* What a drop on the dashboard carries as 'chartType'.
DropTypes == {"Bar", "text/plain"}

\* A chart an earlier session created and saved.
OldChart == ChartConfig(<<"7">>, <<"a">>, "Bar", ColX, ColX, "Count")

\* The rows of the sheets that are aggregated: a cell under each of the two
\* columns, Undefined where the sheet has none.
Row(x, y) == [c \in {ColX, ColY} |-> IF c = ColX THEN x ELSE y]
East == <<"E", "a", "s", "t">>
West == <<"W", "e", "s", "t">>
SampleRows ==
    { Row(Str(East), Num(100)), Row(Str(East), Num(50)),
      Row(Str(West), Num(80)),
      Row(Num(2), Str(<<"5">>)), Row(Num(10), Str(<<" ">>)),
      Row(Str(<<"2">>), Undefined), Row(Undefined, Str(<<"a">>)),
      Row(Str(ConstructorText), Num(1)) }
RECURSIVE RowSets(_)
RowSets(n) ==
    IF n = 0 THEN {<<>>}
    ELSE LET shorter == RowSets(n - 1) IN
         shorter \cup {Append(rows, row) :
                          rows \in {r \in shorter : Len(r) = n - 1},
                          row \in SampleRows}

\* The axes and aggregation of the charts that are aggregated: two different
\* columns under every aggregation, and the count of a column by itself.
SampleAxes ==
    ({<<ColX, ColY>>, <<ColY, ColX>>} \X AggregationType)
        \cup {<<<<ColX, ColX>>, "Count">>, <<<<ColY, ColY>>, "Count">>}

\* The environment of a specification: what the user uploads and types, what
\* the AI service answers, what localStorage holds when the page is opened,
\* and the bounds.  forms are the states the user leaves the chart form in.
EnvCharts ==
    [ files      |-> {FileA},
      stores     |-> {Null, Some(JSONstringify(<<OldChart>>, FileA.name, <<"d">>))},
      forms      |-> { Suggestion(<<"a">>, "Bar", ColX, ColX, "Count") },
      dashTitles |-> {},
      answers    |-> { <<>>,
                       << Suggestion(<<"a">>, "Bar", ColX, ColX, "Count"),
                          Suggestion(EmptyStr, "Pie", ColQ, ColX, "Average") >> },
      maxCharts  |-> MaxCharts,
      maxLoads   |-> MaxPendingLoads,
      maxTicks   |-> MaxTicks,
      maxAi      |-> MaxAiRequests ]

EnvAssistant ==
    [ files      |-> {FileA},
      stores     |-> {Null},
      forms      |-> {},
      dashTitles |-> {},
      answers    |-> { << Suggestion(<<"a">>, "Bar", ColX, ColX, "Count"),
                          Suggestion(EmptyStr, "Pie", ColQ, ColX, "Average") >> },
      maxCharts  |-> MaxChartsFew,
      maxLoads   |-> MaxPendingLoads,
      maxTicks   |-> 0,
      maxAi      |-> MaxAiRequests ]

EnvPersist ==
    [ files      |-> {FileA},
      stores     |-> {Null},
      forms      |-> { Suggestion(<<"a">>, "Bar", ColX, ColX, "Count") },
      dashTitles |-> {<<"d">>},
      answers    |-> {},
      maxCharts  |-> MaxChartsFew,
      maxLoads   |-> MaxPendingLoads,
      maxTicks   |-> 0,
      maxAi      |-> 0 ]

EnvForm ==
    [ files      |-> {FileA},
      stores     |-> {Null},
      forms      |-> { Suggestion(<<"a">>, "Bar", ColX, ColX, "Count"),
                       Suggestion(<<" ">>, "Bar", ColX, ColX, "Count"),
                       Suggestion(EmptyStr, "Bar", ColX, ColX, "Count"),
                       Suggestion(<<"a">>, "Bar", EmptyStr, ColX, "Count"),
                       Suggestion(<<"a">>, "Bar", ColX, EmptyStr, "Count") },
      dashTitles |-> {<<"d">>},
      answers    |-> {},
      maxCharts  |-> MaxChartsFew,
      maxLoads   |-> MaxPendingLoads,
      maxTicks   |-> 0,
      maxAi      |-> 0 ]

EnvSession ==
    [ files      |-> {FileA, FileB, FileC},
      stores     |-> {Null, Some(CorruptText),
                      Some(JSONstringify(<<OldChart>>, FileA.name, <<"d">>))},
      forms      |-> { Suggestion(<<"a">>, "Bar", ColX, ColX, "Count") },
      dashTitles |-> {EmptyStr},
      answers    |-> {},
      maxCharts  |-> MaxChartsFew,
      maxLoads   |-> MaxPendingLoadsSession,
      maxTicks   |-> 0,
      maxAi      |-> 0 ]

\* ------------------------------------------------------------------- state
VARIABLES
    mounted,          \* App is mounted and its mount effects have run
    sessionAuth,      \* sessionStorage['insighthub-auth'] = 'true'
    store,            \* localStorage['insighthub-autosave']: Null or <<text>>
    isAuthenticated, data, columns, charts, dashboardTitle, fileName,
    isRestored,       \* App.tsx core state
    isBuilderOpen, editingChart, isAiAssistantOpen, aiSuggestions,
    isAiLoading,      \* App.tsx UI state
    timers,           \* pending setTimeout callbacks of the autosave effect
    pendingLoads,     \* FileReader reads in flight, with what onload captured
    aiRequests,       \* getAIInsights calls in flight
    clock,            \* Date.now()
    errorToast,       \* the form's error toast is on screen
    sortOption,       \* App.tsx sortOption, the value of the "Sort by" select
    chartData         \* ChartWidget's useMemo: Null until a widget has rendered

vars == << mounted, sessionAuth, store, isAuthenticated, data, columns, charts,
           dashboardTitle, fileName, isRestored, isBuilderOpen, editingChart,
           isAiAssistantOpen, aiSuggestions, isAiLoading, timers, pendingLoads,
           aiRequests, clock, errorToast, sortOption, chartData >>

viewVars == << sortOption, chartData >>
coreVars == << data, columns, charts, dashboardTitle, fileName, isRestored >>
uiVars == << isBuilderOpen, editingChart, isAiAssistantOpen, aiSuggestions,
             isAiLoading >>

\* ---------------------------------------------------------------- effects
\* A variant of the cleanup that cancels nothing.
ClearTimeoutForgotten(ts) == ts

\* The cleanup of the autosave effect: clearTimeout(debounceSave) cancels
\* the timer the previous run of the effect created (the last one set).
ClearTimeout(ts) == IF ts = <<>> THEN <<>> ELSE SubSeq(ts, 1, Len(ts) - 1)

\* A variant of the autosave effect without its check for data.
AutosaveEffectWithoutDataCheck(ts, d, c, f, t) ==
    ClearTimeout(ts) \o <<[charts |-> c, fileName |-> f, dashboardTitle |-> t]>>

\* A variant of the autosave effect in which the early return on absent data
\* also skips the cleanup of the previous run.
AutosaveEffectReturnsEarly(ts, d, c, f, t) ==
    IF d = Null THEN ts
    ELSE ClearTimeout(ts) \o
             <<[charts |-> c, fileName |-> f, dashboardTitle |-> t]>>

\* The autosave effect, run after a render in which one of its dependencies
\* [charts, dashboardTitle, fileName, data] changed: the cleanup of the
\* previous run, then a new timer unless there is no data.  d, c, f, t are
\* the values of the new render, which the timer's callback captures.
AutosaveEffect(ts, d, c, f, t) ==
    ClearTimeout(ts) \o
        (IF d = Null THEN <<>>
         ELSE <<[charts |-> c, fileName |-> f, dashboardTitle |-> t]>>)

\* A variant of the render whose effect leaves dashboardTitle out of its
\* dependencies.
RerenderIgnoringTitle(chartsSet, dataSet) ==
    timers' =
        IF chartsSet \/ dataSet \/ fileName' # fileName
        THEN AutosaveEffect(timers, data', charts', fileName', dashboardTitle')
        ELSE timers

\* The render after a handler: the autosave effect runs again when one of
\* its dependencies changed.  Arrays compare by reference, so every
\* setCharts and every setData with an array is a change (chartsSet,
\* dataSet); strings compare by value.
Rerender(chartsSet, dataSet) ==
    timers' =
        IF chartsSet \/ dataSet \/ dashboardTitle' # dashboardTitle
                     \/ fileName' # fileName
        THEN AutosaveEffect(timers, data', charts', fileName', dashboardTitle')
        ELSE timers

\* A variant of the restore effect that leaves an unreadable entry stored.
RestoredKeepsCorrupt(text, title) ==
    IF JSONparseThrows(text)
    THEN [restore |-> FALSE, remove |-> FALSE, charts |-> <<>>,
          fileName |-> EmptyStr, dashboardTitle |-> title]
    ELSE [restore |-> TRUE, remove |-> FALSE, charts |-> JSONparse(text).charts,
          fileName |-> JSONparse(text).fileName,
          dashboardTitle |-> JSONparse(text).dashboardTitle]

\* What the restore effect does with the text read from localStorage, given
\* the current title: the values it sets, whether it restored, whether it
\* removed the entry.
Restored(text, title) ==
    IF JSONparseThrows(text)
    THEN [restore |-> FALSE, remove |-> TRUE, charts |-> <<>>,
          fileName |-> EmptyStr, dashboardTitle |-> title]
    ELSE LET savedState == JSONparse(text) IN
         \* savedState.charts is an array, truthy even when empty
         IF savedState.fileName # EmptyStr
         THEN [restore |-> TRUE, remove |-> FALSE,
               charts |-> savedState.charts,
               fileName |-> savedState.fileName,
               dashboardTitle |->
                   IF savedState.dashboardTitle # EmptyStr
                   THEN savedState.dashboardTitle ELSE title]
         ELSE [restore |-> FALSE, remove |-> FALSE, charts |-> <<>>,
               fileName |-> EmptyStr, dashboardTitle |-> title]

\* The restore effect (deps [isAuthenticated]) of a render in which the user
\* is authenticated, with the render its setters cause.  data' is set by the
\* action that uses it.
RestoreEffect ==
    IF store = Null
    THEN UNCHANGED <<store, charts, fileName, dashboardTitle, isRestored, timers>>
    ELSE LET r == Restored(store[1], dashboardTitle) IN
         /\ store' = IF r.remove THEN Null ELSE store
         /\ IF r.restore
            THEN /\ charts' = r.charts
                 /\ fileName' = r.fileName
                 /\ dashboardTitle' = r.dashboardTitle
                 /\ isRestored' = TRUE
                 /\ Rerender(TRUE, FALSE)
            ELSE UNCHANGED <<charts, fileName, dashboardTitle, isRestored,
                             timers>>

\* ------------------------------------------------------------------- init
Init(E) ==
    /\ mounted = FALSE
    /\ sessionAuth \in BOOLEAN
    /\ store \in E.stores
    /\ isAuthenticated = FALSE
    /\ data = Null
    /\ columns = <<>>
    /\ charts = <<>>
    /\ dashboardTitle = UntitledDashboard
    /\ fileName = EmptyStr
    /\ isRestored = FALSE
    /\ isBuilderOpen = FALSE
    /\ editingChart = Null
    /\ isAiAssistantOpen = FALSE
    /\ aiSuggestions = <<>>
    /\ isAiLoading = FALSE
    /\ timers = <<>>
    /\ pendingLoads = {}
    /\ aiRequests = 0
    /\ clock = ClockStart
    /\ errorToast = FALSE
    /\ sortOption = "date-desc"
    /\ chartData = Null

\* ---------------------------------------------------------------- session
\* The mount effects: setIsAuthenticated(sessionStorage flag), and, in the
\* render that follows, the restore effect when the flag was set.
Mount ==
    /\ UNCHANGED viewVars
    /\ ~mounted
    /\ mounted' = TRUE
    /\ isAuthenticated' = sessionAuth
    /\ UNCHANGED <<sessionAuth, data, columns, uiVars, pendingLoads, aiRequests,
                   clock, errorToast>>
    /\ IF sessionAuth
       THEN RestoreEffect
       ELSE UNCHANGED <<store, charts, fileName, dashboardTitle, isRestored,
                        timers>>

\* The page is reloaded: the component state, the timers and the reads in
\* flight are gone, localStorage and sessionStorage stay.
Reload ==
    /\ mounted
    /\ mounted' = FALSE
    /\ isAuthenticated' = FALSE
    /\ data' = Null
    /\ columns' = <<>>
    /\ charts' = <<>>
    /\ dashboardTitle' = UntitledDashboard
    /\ fileName' = EmptyStr
    /\ isRestored' = FALSE
    /\ isBuilderOpen' = FALSE
    /\ editingChart' = Null
    /\ isAiAssistantOpen' = FALSE
    /\ aiSuggestions' = <<>>
    /\ isAiLoading' = FALSE
    /\ timers' = <<>>
    /\ pendingLoads' = {}
    /\ aiRequests' = 0
    /\ errorToast' = FALSE
    /\ sortOption' = "date-desc"
    /\ chartData' = Null
    /\ UNCHANGED <<sessionAuth, store, clock>>

\* App.handleLogin, reached from the Login form shown while unauthenticated.
handleLogin ==
    /\ UNCHANGED viewVars
    /\ mounted /\ ~isAuthenticated
    /\ UNCHANGED <<mounted, data, columns, uiVars, pendingLoads, aiRequests,
                   clock, errorToast>>
    /\ \E cred \in Credentials :
         IF cred[1] = "admin" /\ cred[2] = "admin"
         THEN /\ sessionAuth' = TRUE
              /\ isAuthenticated' = TRUE
              /\ RestoreEffect
         ELSE UNCHANGED <<sessionAuth, isAuthenticated, store, charts,
                          fileName, dashboardTitle, isRestored, timers>>

\* A variant of handleLogout that leaves the stored snapshot in place.
handleLogoutKeepsSnapshot ==
    /\ UNCHANGED viewVars
    /\ mounted /\ isAuthenticated
    /\ sessionAuth' = FALSE
    /\ isAuthenticated' = FALSE
    /\ data' = Null
    /\ charts' = <<>>
    /\ columns' = <<>>
    /\ fileName' = EmptyStr
    /\ dashboardTitle' = UntitledDashboard
    /\ isRestored' = FALSE
    /\ Rerender(TRUE, data # Null)
    /\ UNCHANGED <<mounted, store, uiVars, pendingLoads, aiRequests, clock,
                   errorToast>>

\* App.handleLogout, reached from the header's Logout button.
handleLogout ==
    /\ UNCHANGED viewVars
    /\ mounted /\ isAuthenticated
    /\ sessionAuth' = FALSE
    /\ store' = Null
    /\ isAuthenticated' = FALSE
    /\ data' = Null
    /\ charts' = <<>>
    /\ columns' = <<>>
    /\ fileName' = EmptyStr
    /\ dashboardTitle' = UntitledDashboard
    /\ isRestored' = FALSE
    /\ Rerender(TRUE, data # Null)
    /\ UNCHANGED <<mounted, uiVars, pendingLoads, aiRequests, clock, errorToast>>

\* ------------------------------------------------------------ file upload
\* App.handleFileUpload: starts a FileReader whose onload closes over the
\* isRestored and fileName of the render the handler belongs to.  Reached
\* from FileUpload (no data) or from the hidden input behind "Change Data".
handleFileUpload(E) ==
    /\ UNCHANGED viewVars
    /\ mounted /\ isAuthenticated
    /\ Cardinality(pendingLoads) < E.maxLoads
    /\ \E file \in E.files :
         pendingLoads' = pendingLoads \cup
             {[file |-> file, isRestored |-> isRestored, fileName |-> fileName]}
    /\ UNCHANGED <<mounted, sessionAuth, store, isAuthenticated, coreVars,
                   uiVars, timers, aiRequests, clock, errorToast>>

\* The test of reader.onload that decides between resetting the dashboard
\* and keeping it: !isRestored || fileName !== file.name, on the values the
\* callback closed over.
IsNewFile(load) == ~load.isRestored \/ load.fileName # load.file.name

\* reader.onload of the read `load`.
FileReaderOnloadOf(load) ==
    /\ UNCHANGED viewVars
    /\ mounted
    /\ load \in pendingLoads
    /\ LET jsonData == SheetToJson(load.file) IN
         /\ pendingLoads' = pendingLoads \ {load}
         /\ data' = Some(jsonData)
         /\ columns' = IF jsonData.nrows > 0 THEN jsonData.cols ELSE columns
         /\ fileName' = load.file.name
         /\ isRestored' = FALSE
         /\ IF IsNewFile(load)
            THEN /\ dashboardTitle' = getFileNameWithoutExtension(load.file.name)
                 /\ charts' = <<>>
                 /\ Rerender(TRUE, TRUE)
            ELSE /\ UNCHANGED <<dashboardTitle, charts>>
                 /\ Rerender(FALSE, TRUE)
    /\ UNCHANGED <<mounted, sessionAuth, store, isAuthenticated, uiVars,
                   aiRequests, clock, errorToast>>

\* reader.onload of one read in flight.
FileReaderOnload == \E load \in pendingLoads : FileReaderOnloadOf(load)

\* ------------------------------------------------------------- autosave
\* A variant of the timer's callback that writes nothing.
TimerFiresWithoutWrite ==
    /\ UNCHANGED viewVars
    /\ \E i \in 1..Len(timers) :
         timers' = SubSeq(timers, 1, i - 1) \o SubSeq(timers, i + 1, Len(timers))
    /\ UNCHANGED <<mounted, sessionAuth, store, isAuthenticated, coreVars,
                   uiVars, pendingLoads, aiRequests, clock, errorToast>>

\* The callback of a pending autosave timer:
\* localStorage.setItem(KEY, JSON.stringify({charts, fileName, dashboardTitle}))
\* with the values of the render that set it.
TimerFires ==
    /\ UNCHANGED viewVars
    /\ \E i \in 1..Len(timers) :
         /\ store' = Some(JSONstringify(timers[i].charts, timers[i].fileName,
                                         timers[i].dashboardTitle))
         /\ timers' = SubSeq(timers, 1, i - 1) \o SubSeq(timers, i + 1, Len(timers))
    /\ UNCHANGED <<mounted, sessionAuth, isAuthenticated, coreVars, uiVars,
                   pendingLoads, aiRequests, clock, errorToast>>

\* Time passes: a later Date.now() reads a larger value.
Tick(E) ==
    /\ UNCHANGED viewVars
    /\ clock < ClockStart + E.maxTicks
    /\ clock' = clock + 1
    /\ UNCHANGED <<mounted, sessionAuth, store, isAuthenticated, coreVars,
                   uiVars, timers, pendingLoads, aiRequests, errorToast>>

\* ------------------------------------------------------------- chart list
\* The updater handleSaveChart hands to setCharts: with a chart being edited
\* it maps over the list and swaps the entries with config's id, otherwise
\* it appends config.
SavedCharts(prevCharts, editing, config) ==
    IF editing # Null
    THEN [i \in 1..Len(prevCharts) |->
             IF prevCharts[i].id = config.id THEN config ELSE prevCharts[i]]
    ELSE Append(prevCharts, config)

\* App.handleSaveChart(config), with the render that follows.
handleSaveChart(config) ==
    /\ charts' = SavedCharts(charts, editingChart, config)
    /\ editingChart' = Null
    /\ isBuilderOpen' = FALSE
    /\ UNCHANGED <<data, columns, dashboardTitle, fileName, isRestored>>
    /\ Rerender(TRUE, FALSE)

\* The model appends only while the list is shorter than the bound.
Room(E) == editingChart = Null => Len(charts) < E.maxCharts

\* A variant of the form's check that looks at the title only.
FormAcceptedOnTitle(title, xAxis, yAxis) == title # EmptyStr

\* The check at the head of ChartConfigModal.handleSubmit, passed when
\*   !title || !xAxis || !yAxis
\* is false: an empty string is the only falsy string.
FormAccepted(title, xAxis, yAxis) ==
    title # EmptyStr /\ xAxis # EmptyStr /\ yAxis # EmptyStr

\* Date.now().toString()
NewId == NumToString(clock)

\* The id ChartConfigModal.handleSubmit gives the config it saves.
SubmitId(editing) == IF editing # Null THEN editing[1].id ELSE NewId

\* The values a select of the form can hold: the blank option, a column, or
\* the value the form was opened with.
SeqRange(q) == {q[i] : i \in 1..Len(q)}
AxisChoices(opened) == {EmptyStr} \cup SeqRange(columns) \cup {opened}

\* The form as the modal's effect fills it when it opens: the edited
\* chart's fields in edit mode, blank in create mode.
OpenedForm ==
    IF editingChart # Null
    THEN Suggestion(editingChart[1].title, editingChart[1].type,
                    editingChart[1].xAxis, editingChart[1].yAxis,
                    editingChart[1].aggregation)
    ELSE Suggestion(EmptyStr, "Bar", EmptyStr, EmptyStr, "Count")

\* The states the user can leave the form in: untouched, or filled in as one
\* of E.forms whose axes the selects offer.
FormStates(E) ==
    {form \in E.forms \cup {OpenedForm} :
        /\ form.xAxis \in AxisChoices(OpenedForm.xAxis)
        /\ form.yAxis \in AxisChoices(OpenedForm.yAxis)}

\* The config ChartConfigModal.handleSubmit hands to onSave.
SubmittedConfig(form) ==
    ChartConfig(SubmitId(editingChart), form.title, form.type, form.xAxis,
                form.yAxis, form.aggregation)

\* ChartConfigModal.handleSubmit with the form in state `form`: the toast
\* and nothing else when a field is missing, otherwise onSave and onClose.
handleSubmitWith(E, form) ==
    /\ UNCHANGED viewVars
    /\ mounted /\ isAuthenticated /\ isBuilderOpen
    /\ form \in FormStates(E)
    /\ UNCHANGED <<mounted, sessionAuth, store, isAuthenticated,
                   isAiAssistantOpen, aiSuggestions, isAiLoading, pendingLoads,
                   aiRequests, clock>>
    /\ IF ~FormAccepted(form.title, form.xAxis, form.yAxis)
       THEN /\ errorToast' = TRUE
            /\ UNCHANGED <<coreVars, isBuilderOpen, editingChart, timers>>
       ELSE /\ Room(E)
            /\ handleSaveChart(SubmittedConfig(form))
            /\ errorToast' = errorToast

handleSubmit(E) == \E form \in FormStates(E) : handleSubmitWith(E, form)

\* Toast.tsx: the toast closes itself when its timer runs out.
ToastExpires ==
    /\ UNCHANGED viewVars
    /\ errorToast
    /\ errorToast' = FALSE
    /\ UNCHANGED <<mounted, sessionAuth, store, isAuthenticated, coreVars,
                   uiVars, timers, pendingLoads, aiRequests, clock>>

\* The config AiAssistantModal.handleAddChart hands to onAddChart.
AddedConfig(suggestion) ==
    ChartConfig(NewId, suggestion.title, suggestion.type, suggestion.xAxis,
                suggestion.yAxis, suggestion.aggregation)

\* The suggestions with an Add button: the batch, once the modal is open and
\* no longer loading.
ShownSuggestions ==
    IF isAiAssistantOpen /\ ~isAiLoading THEN SeqRange(aiSuggestions) ELSE {}

\* AiAssistantModal.handleAddChart(suggestion): the Add button of one
\* suggestion of the batch shown.
handleAddChartOf(E, suggestion) ==
    /\ UNCHANGED viewVars
    /\ mounted /\ isAuthenticated
    /\ suggestion \in ShownSuggestions
    /\ Room(E)
    /\ UNCHANGED <<mounted, sessionAuth, store, isAuthenticated,
                   isAiAssistantOpen, aiSuggestions, isAiLoading, pendingLoads,
                   aiRequests, clock, errorToast>>
    /\ handleSaveChart(AddedConfig(suggestion))

handleAddChart(E) ==
    \E suggestion \in ShownSuggestions : handleAddChartOf(E, suggestion)

\* The chart widgets exist while data is loaded and the list is not empty.
ShownIds == IF data = Null THEN {} ELSE {charts[i].id : i \in 1..Len(charts)}

\* The updater of App.removeChart(id).
RemovedCharts(prev, id) == SelectSeq(prev, LAMBDA chart : chart.id # id)

\* App.removeChart(id), from the remove button of a widget with that id.
removeChartOf(id) ==
    /\ UNCHANGED viewVars
    /\ mounted /\ isAuthenticated
    /\ id \in ShownIds
    /\ UNCHANGED <<mounted, sessionAuth, store, isAuthenticated, data, columns,
                   dashboardTitle, fileName, isRestored, uiVars, pendingLoads,
                   aiRequests, clock, errorToast>>
    /\ charts' = RemovedCharts(charts, id)
    /\ Rerender(TRUE, FALSE)

removeChart == \E id \in ShownIds : removeChartOf(id)

\* charts.find(c => c.id === id): the first chart with that id.
FindChart(list, id) ==
    list[CHOOSE i \in 1..Len(list) :
             /\ list[i].id = id
             /\ \A j \in 1..(i - 1) : list[j].id # id]

\* App.handleOpenEditModal(id), from a widget's edit button.
handleOpenEditModal ==
    /\ UNCHANGED viewVars
    /\ mounted /\ isAuthenticated
    /\ \E id \in ShownIds :
         /\ editingChart' = Some(FindChart(charts, id))
         /\ isBuilderOpen' = TRUE
    /\ UNCHANGED <<mounted, sessionAuth, store, isAuthenticated, coreVars,
                   isAiAssistantOpen, aiSuggestions, isAiLoading, timers,
                   pendingLoads, aiRequests, clock, errorToast>>

\* The variant of the handler in the copy of App inlined in
\* services/geminiService.ts (handleRefresh): it also clears the restored
\* flag and removes the stored snapshot.
handleRefresh ==
    /\ UNCHANGED viewVars
    /\ mounted /\ isAuthenticated /\ data # Null
    /\ charts' = <<>>
    /\ isRestored' = FALSE
    /\ store' = Null
    /\ UNCHANGED <<mounted, sessionAuth, isAuthenticated, data, columns,
                   dashboardTitle, fileName, uiVars, pendingLoads,
                   aiRequests, clock, errorToast>>
    /\ Rerender(TRUE, FALSE)

\* App.handleClearDashboard, the header's "Clear Dashboard" (shown with data).
handleClearDashboard ==
    /\ UNCHANGED viewVars
    /\ mounted /\ isAuthenticated /\ data # Null
    /\ charts' = <<>>
    /\ UNCHANGED <<mounted, sessionAuth, store, isAuthenticated, data, columns,
                   dashboardTitle, fileName, isRestored, uiVars, pendingLoads,
                   aiRequests, clock, errorToast>>
    /\ Rerender(TRUE, FALSE)

\* App.handleCloseModal, the form's Cancel.
handleCloseModal ==
    /\ UNCHANGED viewVars
    /\ mounted /\ isAuthenticated /\ isBuilderOpen
    /\ isBuilderOpen' = FALSE
    /\ editingChart' = Null
    /\ UNCHANGED <<mounted, sessionAuth, store, isAuthenticated, coreVars,
                   isAiAssistantOpen, aiSuggestions, isAiLoading, timers,
                   pendingLoads, aiRequests, clock, errorToast>>

\* App.handleChartDrop: a toolbox item dropped on the dashboard (shown with
\* data) opens the form in create mode.
handleChartDrop ==
    /\ UNCHANGED viewVars
    /\ mounted /\ isAuthenticated /\ data # Null
    /\ \E type \in DropTypes :
         IF type \in ChartType
         THEN isBuilderOpen' = TRUE /\ editingChart' = Null
         ELSE UNCHANGED <<isBuilderOpen, editingChart>>
    /\ UNCHANGED <<mounted, sessionAuth, store, isAuthenticated, coreVars,
                   isAiAssistantOpen, aiSuggestions, isAiLoading, timers,
                   pendingLoads, aiRequests, clock, errorToast>>

\* The dashboard title input (shown with data): setDashboardTitle(value).
setDashboardTitle(E) ==
    /\ UNCHANGED viewVars
    /\ mounted /\ isAuthenticated /\ data # Null
    /\ \E value \in E.dashTitles : dashboardTitle' = value
    /\ UNCHANGED <<mounted, sessionAuth, store, isAuthenticated, data, columns,
                   charts, fileName, isRestored, uiVars, pendingLoads,
                   aiRequests, clock, errorToast>>
    /\ Rerender(FALSE, FALSE)

\* ----------------------------------------------------------- AI assistant
\* App.handleGetAIInsights up to its await (the button is shown with data).
handleGetAIInsights(E) ==
    /\ UNCHANGED viewVars
    /\ mounted /\ isAuthenticated /\ data # Null
    /\ aiRequests < E.maxAi
    /\ IF data[1].nrows = 0
       THEN UNCHANGED <<isAiAssistantOpen, isAiLoading, aiRequests>>
       ELSE /\ isAiAssistantOpen' = TRUE
            /\ isAiLoading' = TRUE
            /\ aiRequests' = aiRequests + 1
    /\ UNCHANGED <<mounted, sessionAuth, store, isAuthenticated, coreVars,
                   isBuilderOpen, editingChart, aiSuggestions, timers,
                   pendingLoads, clock, errorToast>>

\* App.handleGetAIInsights after its await, getAIInsights having resolved
\* with a batch: setAiSuggestions(suggestions), then the finally block.
GetAIInsightsResolves(E) ==
    /\ UNCHANGED viewVars
    /\ aiRequests > 0
    /\ aiRequests' = aiRequests - 1
    /\ \E suggestions \in E.answers : aiSuggestions' = suggestions
    /\ isAiLoading' = FALSE
    /\ UNCHANGED <<mounted, sessionAuth, store, isAuthenticated, coreVars,
                   isBuilderOpen, editingChart, isAiAssistantOpen, timers,
                   pendingLoads, clock, errorToast>>

\* A variant of the handler without its catch and finally blocks: the
\* rejection leaves the handler and nothing is set.
GetAIInsightsRejectsUnhandled ==
    /\ UNCHANGED viewVars
    /\ aiRequests > 0
    /\ aiRequests' = aiRequests - 1
    /\ UNCHANGED <<aiSuggestions, isAiLoading>>
    /\ UNCHANGED <<mounted, sessionAuth, store, isAuthenticated, coreVars,
                   isBuilderOpen, editingChart, isAiAssistantOpen, timers,
                   pendingLoads, clock, errorToast>>

\* App.handleGetAIInsights after its await, getAIInsights having thrown
\* ('Failed to generate AI insights.'): the catch block's
\* setAiSuggestions([]), then the finally block.
GetAIInsightsRejects ==
    /\ UNCHANGED viewVars
    /\ aiRequests > 0
    /\ aiRequests' = aiRequests - 1
    /\ aiSuggestions' = <<>>
    /\ isAiLoading' = FALSE
    /\ UNCHANGED <<mounted, sessionAuth, store, isAuthenticated, coreVars,
                   isBuilderOpen, editingChart, isAiAssistantOpen, timers,
                   pendingLoads, clock, errorToast>>

\* A request in flight settles one way or the other.
GetAIInsightsSettles(E) == GetAIInsightsResolves(E) \/ GetAIInsightsRejects

\* The assistant's Close button: setIsAiAssistantOpen(false).
closeAiAssistant ==
    /\ UNCHANGED viewVars
    /\ mounted /\ isAuthenticated /\ isAiAssistantOpen
    /\ isAiAssistantOpen' = FALSE
    /\ UNCHANGED <<mounted, sessionAuth, store, isAuthenticated, coreVars,
                   isBuilderOpen, editingChart, aiSuggestions, isAiLoading,
                   timers, pendingLoads, aiRequests, clock, errorToast>>

\* ------------------------------------------------------------ chart widget
\* ChartWidget's useMemo for the widget of charts[i]: aggregateData on the
\* rows and the chart's axes and aggregation, from one or the other copy of
\* the module.
ChartWidgetMemo(i, skipsEmpty) ==
    /\ mounted /\ isAuthenticated /\ data # Null
    /\ i \in 1..Len(charts)
    /\ chartData' =
           Some([skipsEmpty |-> skipsEmpty, config |-> charts[i],
                 result |-> IF skipsEmpty
                            THEN aggregateDataSkippingEmpty(data[1].rows,
                                     charts[i].xAxis, charts[i].yAxis,
                                     charts[i].aggregation)
                            ELSE aggregateData(data[1].rows, charts[i].xAxis,
                                     charts[i].yAxis, charts[i].aggregation)])
    /\ UNCHANGED <<mounted, sessionAuth, store, isAuthenticated, coreVars,
                   uiVars, timers, pendingLoads, aiRequests, clock, errorToast,
                   sortOption>>

ChartWidgetRenders == \E i \in 1..Len(charts) : ChartWidgetMemo(i, FALSE)
ChartWidgetRendersSkippingEmpty == \E i \in 1..Len(charts) : ChartWidgetMemo(i, TRUE)

\* A session with a sheet loaded, a chart list and both saved, the sort select
\* untouched and no widget rendered yet.
Loaded(rows, chartList) ==
    /\ mounted = TRUE
    /\ sessionAuth = TRUE
    /\ isAuthenticated = TRUE
    /\ data = Some([cols |-> <<ColX, ColY>>, nrows |-> Len(rows),
                    rows |-> rows])
    /\ columns = <<ColX, ColY>>
    /\ charts = chartList
    /\ dashboardTitle = getFileNameWithoutExtension(FileB.name)
    /\ fileName = FileB.name
    /\ store = Some(JSONstringify(charts, fileName, dashboardTitle))
    /\ isRestored = FALSE
    /\ isBuilderOpen = FALSE
    /\ editingChart = Null
    /\ isAiAssistantOpen = FALSE
    /\ aiSuggestions = <<>>
    /\ isAiLoading = FALSE
    /\ timers = <<>>
    /\ pendingLoads = {}
    /\ aiRequests = 0
    /\ clock = ClockStart
    /\ errorToast = FALSE
    /\ sortOption = "date-desc"
    /\ chartData = Null

\* One chart on the dashboard, over every row set and every choice of axes.
InitAggregate ==
    \E rows \in RowSets(MaxRows), axes \in SampleAxes :
        Loaded(rows, <<ChartConfig(NumToString(ClockStart), <<"a">>, "Bar",
                                   axes[1][1], axes[1][2], axes[2])>>)

\* ------------------------------------------------------------ chart sorter
\* parseInt(id): the number the leading digits spell, NaN without one.
RECURSIVE LeadingDigits(_)
LeadingDigits(s) ==
    IF s = EmptyStr \/ s[1] \notin Digits THEN EmptyStr
    ELSE <<s[1]>> \o LeadingDigits(Tail(s))
parseInt(s) ==
    IF LeadingDigits(s) = EmptyStr THEN NaN ELSE Num(ParseDigits(LeadingDigits(s)))
\* a - b as a comparator's result, NaN being taken as 0.
Difference(a, b) == IF isNaN(a) \/ isNaN(b) THEN 0 ELSE a.num - b.num

\* The characters of a chart type.
TypeText(type) ==
    CASE type = "Bar" -> <<"B", "a", "r">>
      [] type = "Line" -> <<"L", "i", "n", "e">>
      [] type = "Area" -> <<"A", "r", "e", "a">>
      [] type = "Pie" -> <<"P", "i", "e">>
      [] type = "Donut" -> <<"D", "o", "n", "u", "t">>
      [] OTHER -> <<"S", "c", "a", "t", "t", "e", "r">>

\* The values of the "Sort by" select.
SortOptions == {"date-asc", "date-desc", "title-asc", "title-desc", "type-asc"}

\* A variant of the comparators in which 'title-desc' compares as 'title-asc'.
CompareChartsTitleAscOnly(option, a, b) ==
    CASE option = "date-asc" -> Difference(parseInt(a.id), parseInt(b.id))
      [] option = "date-desc" -> Difference(parseInt(b.id), parseInt(a.id))
      [] option = "title-asc" -> localeCompare(a.title, b.title)
      [] option = "title-desc" -> localeCompare(a.title, b.title)
      [] option = "type-asc" -> localeCompare(TypeText(a.type), TypeText(b.type))
      [] OTHER -> Difference(parseInt(b.id), parseInt(a.id))

\* The comparator sortedCharts hands to sort under a sort option.
CompareCharts(option, a, b) ==
    CASE option = "date-asc" -> Difference(parseInt(a.id), parseInt(b.id))
      [] option = "date-desc" -> Difference(parseInt(b.id), parseInt(a.id))
      [] option = "title-asc" -> localeCompare(a.title, b.title)
      [] option = "title-desc" -> localeCompare(b.title, a.title)
      [] option = "type-asc" -> localeCompare(TypeText(a.type), TypeText(b.type))
      [] OTHER -> Difference(parseInt(b.id), parseInt(a.id))

\* A sort that leaves elements that compare equal in the reverse of the
\* order they stood in.
SortedReversingTies(list, compared) ==
    LET n == Len(list)
        Position(i) ==
            1 + Cardinality({j \in 1..n :
                    \/ compared[j][i] < 0
                    \/ compared[j][i] = 0 /\ j > i})
    IN  SubSeq([k \in 1..n |-> list[CHOOSE i \in 1..n : Position(i) = k]], 1, n)
\* The results of the comparator of a sort option on the charts of a list.
ComparedCharts(chartList, option) ==
    [j \in 1..Len(chartList) |-> [i \in 1..Len(chartList) |->
        CompareCharts(option, chartList[j], chartList[i])]]
sortedChartsReversingTies(chartList, option) ==
    SortedReversingTies(chartList, ComparedCharts(chartList, option))

\* App.tsx sortedCharts: a sorted copy of the chart list.
sortedCharts(chartList, option) ==
    SortedBy(chartList, ComparedCharts(chartList, option))

\* A variant of the select's handler with a sorter that sorts the chart list
\* itself instead of a copy of it.
setSortOptionSortingInPlace ==
    /\ mounted /\ isAuthenticated /\ data # Null /\ Len(charts) > 1
    /\ \E option \in SortOptions :
         /\ option # sortOption
         /\ sortOption' = option
         /\ charts' = sortedCharts(charts, option)
    /\ UNCHANGED <<mounted, sessionAuth, store, isAuthenticated, data, columns,
                   dashboardTitle, fileName, isRestored, uiVars, timers,
                   pendingLoads, aiRequests, clock, errorToast, chartData>>

\* The "Sort by" select changes.
setSortOption ==
    /\ mounted /\ isAuthenticated /\ data # Null /\ Len(charts) > 1
    /\ \E option \in SortOptions :
         /\ option # sortOption
         /\ sortOption' = option
    /\ UNCHANGED <<mounted, sessionAuth, store, isAuthenticated, coreVars,
                   uiVars, timers, pendingLoads, aiRequests, clock, errorToast,
                   chartData>>

\* The charts that are sorted: two ids of which the longer is the later, two
\* titles, two types.
SampleCharts ==
    {ChartConfig(id, title, type, ColX, ColY, "Sum") :
        id \in {NumToString(ClockStart), NumToString(ClockStart + 1)},
        title \in {<<"a">>, <<"b">>},
        type \in {"Bar", "Pie"}}
RECURSIVE ChartLists(_)
ChartLists(n) ==
    IF n = 0 THEN {<<>>}
    ELSE LET shorter == ChartLists(n - 1) IN
         shorter \cup {Append(list, chart) :
                          list \in {l \in shorter : Len(l) = n - 1},
                          chart \in SampleCharts}

\* A loaded sheet under every chart list.
InitSorter ==
    \E chartList \in ChartLists(MaxSorted) :
        Loaded(<<Row(Str(East), Num(100))>>, chartList)

\* --------------------------------------------------------- specifications
\* The dashboard's chart list under the "Sort by" select.
NextSorter == setSortOption

SpecSorter == InitSorter /\ [][NextSorter]_vars

\* The aggregation behind a chart widget.
NextAggregate ==
    \/ ChartWidgetRenders
    \/ ChartWidgetRendersSkippingEmpty

SpecAggregate == InitAggregate /\ [][NextAggregate]_vars

\* The AI assistant: requests, their answers and failures, charts added
\* from the batch shown.
NextAssistant ==
    \/ Mount
    \/ handleLogin
    \/ handleLogout
    \/ handleFileUpload(EnvAssistant)
    \/ FileReaderOnload
    \/ TimerFires
    \/ handleAddChart(EnvAssistant)
    \/ removeChart
    \/ handleGetAIInsights(EnvAssistant)
    \/ GetAIInsightsResolves(EnvAssistant)
    \/ GetAIInsightsRejects
    \/ closeAiAssistant

SpecAssistant == Init(EnvAssistant) /\ [][NextAssistant]_vars

\* The autosave under the changes a session makes, with the debounce timer
\* running out: a timer that stays pending fires (setTimeout, 1000 ms).
NextPersist ==
    \/ Mount
    \/ handleLogin
    \/ handleLogout
    \/ handleFileUpload(EnvPersist)
    \/ FileReaderOnload
    \/ TimerFires
    \/ handleSubmit(EnvPersist)
    \/ removeChart
    \/ handleOpenEditModal
    \/ handleClearDashboard
    \/ handleCloseModal
    \/ handleChartDrop
    \/ setDashboardTitle(EnvPersist)

SpecPersist ==
    Init(EnvPersist) /\ [][NextPersist]_vars /\ WF_vars(TimerFires)

\* The chart list under the form, the edit modal and the AI assistant.
NextCharts ==
    \/ Mount
    \/ handleLogin
    \/ handleLogout
    \/ handleFileUpload(EnvCharts)
    \/ FileReaderOnload
    \/ TimerFires
    \/ Tick(EnvCharts)
    \/ handleSubmit(EnvCharts)
    \/ ToastExpires
    \/ handleAddChart(EnvCharts)
    \/ removeChart
    \/ handleOpenEditModal
    \/ handleClearDashboard
    \/ handleCloseModal
    \/ handleChartDrop
    \/ handleGetAIInsights(EnvCharts)
    \/ GetAIInsightsSettles(EnvCharts)
    \/ closeAiAssistant

SpecCharts == Init(EnvCharts) /\ [][NextCharts]_vars

\* The chart form with every way of leaving a field empty.
NextForm ==
    \/ Mount
    \/ handleLogin
    \/ handleLogout
    \/ handleFileUpload(EnvForm)
    \/ FileReaderOnload
    \/ TimerFires
    \/ handleSubmit(EnvForm)
    \/ ToastExpires
    \/ removeChart
    \/ handleOpenEditModal
    \/ handleClearDashboard
    \/ handleCloseModal
    \/ handleChartDrop
    \/ setDashboardTitle(EnvForm)

SpecForm == Init(EnvForm) /\ [][NextForm]_vars

\* The session: login, restore, uploads, autosave, logout, reload.
NextSession ==
    \/ Mount
    \/ Reload
    \/ handleLogin
    \/ handleLogout
    \/ handleFileUpload(EnvSession)
    \/ FileReaderOnload
    \/ TimerFires
    \/ handleSubmit(EnvSession)
    \/ ToastExpires
    \/ removeChart
    \/ handleClearDashboard
    \/ handleCloseModal
    \/ handleChartDrop
    \/ setDashboardTitle(EnvSession)

SpecSession == Init(EnvSession) /\ [][NextSession]_vars

\* ------------------------------------------------------------------ claims
HasId(list, id) == \E i \in 1..Len(list) : list[i].id = id

\* A step that is a submit of the form in state `form` which passed the
\* form's check and went on to handleSaveChart.
AcceptedSubmit(E, form) ==
    /\ handleSubmitWith(E, form)
    /\ FormAccepted(form.title, form.xAxis, form.yAxis)

\* The length a save of config is said to leave the list with.
LengthRule(config) ==
    Len(charts') = IF HasId(charts, config.id) THEN Len(charts)
                   ELSE Len(charts) + 1

\* C1: every save, from the form or from an AI suggestion, of a config whose
\* id is already in the chart list leaves the length of the list unchanged,
\* and every save of a config whose id is not in the list makes the list
\* exactly one longer.
C1_SaveLengthRule ==
    [][ /\ \A form \in FormStates(EnvCharts) :
              AcceptedSubmit(EnvCharts, form) => LengthRule(SubmittedConfig(form))
        /\ \A suggestion \in ShownSuggestions :
              handleAddChartOf(EnvCharts, suggestion)
                  => LengthRule(AddedConfig(suggestion))
      ]_vars

\* C2: in every reachable state the ids of the charts in the list are
\* pairwise distinct.
C2_IdsPairwiseDistinct ==
    \A i, j \in 1..Len(charts) : i # j => charts[i].id # charts[j].id

\* A form with one of its required fields left empty.
MissingField(form) ==
    form.title = EmptyStr \/ form.xAxis = EmptyStr \/ form.yAxis = EmptyStr

\* C3: a submit of the chart form with the title, the xAxis or the yAxis
\* missing is rejected with an error: the chart list, the dashboard title and
\* the file name stay as they were (so do the data and its columns), and the
\* form stays open on the same chart.
C3_RejectedSubmitChangesNothing ==
    [][ \A form \in FormStates(EnvForm) :
            (MissingField(form) /\ handleSubmitWith(EnvForm, form))
                => /\ errorToast'
                   /\ UNCHANGED <<charts, dashboardTitle, fileName, data,
                                  columns, isBuilderOpen, editingChart>>
      ]_vars
\* The error is on screen over a form still open on the chart being edited,
\* with the list and the title the user had set still there.
C3_Witness ==
    /\ errorToast /\ isBuilderOpen /\ editingChart # Null
    /\ Len(charts) = 1 /\ charts[1] = editingChart[1]
    /\ dashboardTitle = <<"d">>

\* The validator as it is described: title non-empty once trimmed, both axes
\* non-empty, nothing asked of the two axes being different.
PassesValidator(form) ==
    Trim(form.title) # EmptyStr /\ form.xAxis # EmptyStr /\ form.yAxis # EmptyStr

\* C4: the form's check accepts a candidate only if its title is non-empty
\* after trimming whitespace and its xAxis and yAxis are non-empty (a title
\* of whitespace only is rejected), and it does accept such a candidate when
\* its xAxis equals its yAxis.  A submit is accepted when it closes the form
\* and rejected when it leaves it open.
C4_ValidatorTrimsTitle ==
    [][ \A form \in FormStates(EnvForm) :
            handleSubmitWith(EnvForm, form)
                => (~isBuilderOpen' <=> PassesValidator(form))
      ]_vars

\* A config with a title and with axes among the current columns.
IsValidConfig(config) ==
    /\ config.title # EmptyStr
    /\ config.xAxis \in SeqRange(columns)
    /\ config.yAxis \in SeqRange(columns)

\* C5: every chart that enters the list through a save, from the form or
\* from an AI suggestion, has a non-empty title and an xAxis and a yAxis that
\* are columns of the data at that moment; a candidate that is not like that
\* is rejected and the list stays as it was.
C5_SavedChartsAreValid ==
    [][ /\ \A form \in FormStates(EnvCharts) :
              AcceptedSubmit(EnvCharts, form)
                  => (IsValidConfig(SubmittedConfig(form)) \/ charts' = charts)
        /\ \A suggestion \in ShownSuggestions :
              handleAddChartOf(EnvCharts, suggestion)
                  => (IsValidConfig(AddedConfig(suggestion)) \/ charts' = charts)
      ]_vars

\* C6: when a file load completes, the file name becomes the new name; if
\* the session is restored and the new name is the restored file name, the
\* chart list and the dashboard title are kept, otherwise the chart list is
\* emptied and the title becomes the new name without its extension.
C6_LoadCompletionRule ==
    [][ \A load \in pendingLoads :
            FileReaderOnloadOf(load)
                => /\ fileName' = load.file.name
                   /\ IF isRestored /\ fileName = load.file.name
                      THEN UNCHANGED <<charts, dashboardTitle>>
                      ELSE /\ charts' = <<>>
                           /\ dashboardTitle' =
                                  getFileNameWithoutExtension(load.file.name)
      ]_vars

\* A step that enters the authenticated state: a login, or a mount with the
\* session flag set.
EntersAuthenticated == ~isAuthenticated /\ isAuthenticated'

\* C7: a step that enters the authenticated state with a well-formed
\* snapshot stored ends restored: the chart list and the file name are the
\* snapshot's, the restored flag is set and no row data is loaded.
C7_EntryRestoresSnapshot ==
    [][ (EntersAuthenticated /\ store # Null /\ ~JSONparseThrows(store[1]))
            => /\ charts' = JSONparse(store[1]).charts
               /\ fileName' = JSONparse(store[1]).fileName
               /\ isRestored'
               /\ data' = Null
      ]_vars

\* A logout: the step that takes a mounted App from authenticated to
\* unauthenticated (a reload unmounts it).
LogoutStep == mounted /\ mounted' /\ isAuthenticated /\ ~isAuthenticated'

\* C8: logout is a hard reset.  A logout step leaves the session
\* unauthenticated, the row data absent, the chart list and the columns
\* empty, the file name empty, the dashboard title at its default, the
\* restored flag cleared and no snapshot stored.
C8_LogoutIsHardReset ==
    [][ LogoutStep
            => /\ data' = Null
               /\ charts' = <<>>
               /\ columns' = <<>>
               /\ fileName' = EmptyStr
               /\ dashboardTitle' = UntitledDashboard
               /\ ~isRestored'
               /\ store' = Null
      ]_vars
\* Logged out of a session that had data and the chart form open: reset,
\* with the form's flag as the session left it.
C8_Witness ==
    /\ mounted /\ ~isAuthenticated /\ ~sessionAuth /\ isBuilderOpen
    /\ data = Null /\ charts = <<>> /\ columns = <<>> /\ fileName = EmptyStr
    /\ dashboardTitle = UntitledDashboard /\ ~isRestored /\ store = Null

C10_OnePendingWrite ==
    /\ Len(timers) <= 1
    /\ timers # <<>> =>
           /\ data # Null
           /\ timers[1] = [charts |-> charts, fileName |-> fileName,
                           dashboardTitle |-> dashboardTitle]
\* A write is pending for a list changed since the last write was stored.
C10_Witness ==
    /\ Len(timers) = 1 /\ store # Null /\ ~JSONparseThrows(store[1])
    /\ timers[1].charts # <<>>
    /\ JSONparse(store[1]).charts # timers[1].charts

\* C11: last write wins.  Every write that executes stores exactly the chart
\* list, the file name and the dashboard title current at the moment it
\* executes: only the write the last change scheduled is left to execute, and
\* no write stores a state older than the latest change.
C11_WriteStoresCurrentState ==
    [][ TimerFires
            => store' = Some(JSONstringify(charts, fileName, dashboardTitle))
      ]_vars
\* A write has executed after changes made with data loaded: the store holds
\* the current, non-empty chart list under the title the user typed.
C11_Witness ==
    /\ data # Null /\ timers = <<>> /\ charts # <<>>
    /\ dashboardTitle = EmptyStr
    /\ store = Some(JSONstringify(charts, fileName, dashboardTitle))

\* C12: a write is scheduled and executed only while a row set is loaded.
\* No write executes with no row data loaded, and no step leaves a write
\* pending with no row data loaded, so the configuration held before any data
\* exists (a restored chart list waiting for its file) is never written.
C12_WritesOnlyWithData ==
    [][ /\ TimerFires => data # Null
        /\ timers' # <<>> => data' # Null
      ]_vars
\* A restored chart list waits for its file: nothing is pending, and the
\* store still holds what the earlier session wrote.
C12_Witness ==
    /\ isAuthenticated /\ isRestored /\ data = Null /\ charts = <<OldChart>>
    /\ timers = <<>>
    /\ store = Some(JSONstringify(<<OldChart>>, FileA.name, <<"d">>))

\* C13: round trip.  A snapshot written from a state with a row set loaded,
\* whatever its chart list, dashboard title and file name, is restored at the
\* next session start to a chart list, a dashboard title and a file name
\* equal to those written.
C13_RoundTrip ==
    [][ (EntersAuthenticated /\ store # Null /\ ~JSONparseThrows(store[1]))
            => /\ charts' = JSONparse(store[1]).charts
               /\ dashboardTitle' = JSONparse(store[1]).dashboardTitle
               /\ fileName' = JSONparse(store[1]).fileName
      ]_vars

WidgetRows == data[1].rows
WidgetConfig == chartData[1].config
WidgetResult == chartData[1].result
IsFrequency(config) ==
    config.aggregation = "Count" /\ config.xAxis = config.yAxis
\* The distinct stringified values of a column.
GroupKeys(rows, col) == {StringOf(rows[n][col]) : n \in 1..Len(rows)}
RECURSIVE CountsTotal(_, _)
CountsTotal(rows, col) ==
    IF rows = <<>> THEN 0 ELSE rows[1][col].num + CountsTotal(Tail(rows), col)

\* C15: frequency special case.  For a non-empty row set and a column col,
\* aggregateData(rows, col, col, Count) returns as many rows as col has
\* distinct stringified values (a missing cell being a value of its own), each
\* row carries a number, and these counts sum to the number of input rows.
C15_FrequencyCountsEveryRow ==
    (chartData # Null /\ IsFrequency(WidgetConfig) /\ Len(WidgetRows) > 0) =>
        /\ ~WidgetResult.thrown
        /\ Len(WidgetResult.rows)
               = Cardinality(GroupKeys(WidgetRows, WidgetConfig.xAxis))
        /\ \A i \in 1..Len(WidgetResult.rows) :
               WidgetResult.rows[i][WidgetConfig.yAxis].kind = "number"
        /\ CountsTotal(WidgetResult.rows, WidgetConfig.yAxis) = Len(WidgetRows)

\* The group keys of the rows whose measure cell coerces to a number.
NumericKeys(rows, groupBy, valueColumn) ==
    {StringOf(rows[n][groupBy]) :
        n \in {j \in 1..Len(rows) : ~isNaN(NumberOf(rows[j][valueColumn]))}}

\* C16: outside the frequency special case, for every row set and every
\* aggregation, aggregateData returns exactly one row for each distinct
\* stringified group key that has at least one measure value coercible to a
\* number, and no row for a group key whose numeric pool is empty.
C16_OneRowPerNumericGroup ==
    (chartData # Null /\ ~IsFrequency(WidgetConfig)) =>
        /\ ~WidgetResult.thrown
        /\ {WidgetResult.rows[i][WidgetConfig.xAxis] :
                i \in 1..Len(WidgetResult.rows)}
             = {Str(key) : key \in NumericKeys(WidgetRows, WidgetConfig.xAxis,
                                               WidgetConfig.yAxis)}
        /\ Len(WidgetResult.rows)
             = Cardinality(NumericKeys(WidgetRows, WidgetConfig.xAxis,
                                       WidgetConfig.yAxis))

\* The row sets that hold the same rows in another order.
Reorderings(rows) ==
    {[n \in 1..Len(rows) |-> rows[p[n]]] :
        p \in {q \in [1..Len(rows) -> 1..Len(rows)] :
                  \A i, j \in 1..Len(rows) : q[i] = q[j] => i = j}}

\* C17: order determinism.  For every row set, pair of columns and
\* aggregation, the frequency special case included, aggregateData applied to
\* any permutation of the rows returns the same rows in the same order.
C17_SameOrderForEveryPermutation ==
    chartData # Null =>
        \A permuted \in Reorderings(WidgetRows) :
            Aggregated(chartData[1].skipsEmpty, permuted, WidgetConfig.xAxis,
                       WidgetConfig.yAxis, WidgetConfig.aggregation)
              = WidgetResult

\* Whether every cell of a column is a number, or every cell a text.
AllNumbers(rows, col) == \A n \in 1..Len(rows) : rows[n][col].kind = "number"
AllText(rows, col) == \A n \in 1..Len(rows) : rows[n][col].kind = "string"
\* The group key a returned row carries, when the chart has two columns.
GroupKeyOf(i) == WidgetResult.rows[i][WidgetConfig.xAxis]

\* C18: the rows aggregateData returns are in ascending order of group key:
\* in string order when the cells of the group column are text, in numeric
\* order when they are numbers (group 2 before group 10).  Stated where the
\* returned rows carry their group key, that is for two different columns.
C18_SortedByGroupKey ==
    (chartData # Null /\ WidgetConfig.xAxis # WidgetConfig.yAxis) =>
        \A i, j \in 1..Len(WidgetResult.rows) : i < j =>
            /\ AllText(WidgetRows, WidgetConfig.xAxis) =>
                   localeCompare(StringOf(GroupKeyOf(i)),
                                 StringOf(GroupKeyOf(j))) <= 0
            /\ AllNumbers(WidgetRows, WidgetConfig.xAxis) =>
                   NumberOf(GroupKeyOf(i)).num <= NumberOf(GroupKeyOf(j)).num

\* A cell that is a number: a number, or a text that spells one.
IsNumericCell(v) ==
    \/ v.kind = "number" /\ ~isNaN(v)
    \/ v.kind = "string" /\ IsDigits(Trim(v.str))
NumericValue(v) == IF v.kind = "number" THEN v.num ELSE ParseDigits(Trim(v.str))
\* Among the first n rows, those of a group whose measure cell is a number.
PoolRows(rows, groupBy, valueColumn, key, n) ==
    {j \in 1..n : /\ StringOf(rows[j][groupBy]) = key
                  /\ IsNumericCell(rows[j][valueColumn])}
RECURSIVE PoolSum(_, _, _, _, _)
PoolSum(rows, groupBy, valueColumn, key, n) ==
    IF n = 0 THEN 0
    ELSE PoolSum(rows, groupBy, valueColumn, key, n - 1)
         + (IF n \in PoolRows(rows, groupBy, valueColumn, key, n)
            THEN NumericValue(rows[n][valueColumn]) ELSE 0)
\* The value the group of a returned row should carry.
ExpectedValue(key, aggregation) ==
    LET total == PoolSum(WidgetRows, WidgetConfig.xAxis, WidgetConfig.yAxis,
                         key, Len(WidgetRows))
        size == Cardinality(PoolRows(WidgetRows, WidgetConfig.xAxis,
                                     WidgetConfig.yAxis, key, Len(WidgetRows)))
    IN  CASE aggregation = "Sum" -> Num(total)
          [] aggregation = "Count" -> Num(size)
          [] OTHER -> Divide(total, size)

\* C19: outside the frequency special case, the value of every returned
\* group is computed from the measure cells of the group that are numbers and
\* from nothing else: Sum is their sum, Count how many they are, Average
\* their sum divided by their count.  A missing cell or a text that is not a
\* number contributes nothing and is not counted as zero.
C19_ValueFromNumericCellsOnly ==
    (chartData # Null /\ ~IsFrequency(WidgetConfig)) =>
        \A i \in 1..Len(WidgetResult.rows) :
            WidgetResult.rows[i][WidgetConfig.yAxis]
              = ExpectedValue(StringOf(GroupKeyOf(i)), WidgetConfig.aggregation)

\* The dashboard's charts as they are displayed.
Displayed == sortedCharts(charts, sortOption)
\* The ways of reading a list as a reordering of another.
Placements(sorted, list) ==
    {p \in [1..Len(sorted) -> 1..Len(list)] :
        /\ \A k, l \in 1..Len(sorted) : p[k] = p[l] => k = l
        /\ \A k \in 1..Len(sorted) : sorted[k] = list[p[k]]}

\* C20: the chart sorter is stable under every sort option.  The displayed
\* list holds the charts of the chart list, and charts that compare equal
\* under the option (same title, same type, or same integer parsed from the
\* id) stand in it in the order they have in the chart list.
C20_SorterIsStable ==
    LET shown == Displayed IN
    /\ Len(shown) = Len(charts)
    /\ \E p \in Placements(shown, charts) :
         \A k, l \in 1..Len(shown) :
            (k < l /\ CompareCharts(sortOption, shown[k], shown[l]) = 0)
                => p[k] < p[l]
\* Two charts with the same title and different ids are displayed sorted by
\* title, after the select has been changed.
C20_Witness ==
    /\ sortOption = "title-desc"
    /\ Len(charts) = 3
    /\ charts[1].title = charts[3].title
    /\ charts[1].id # charts[3].id
    /\ charts[2].title # charts[1].title
    /\ Displayed # charts

\* A list back to front.
Reversed(list) == [k \in 1..Len(list) |-> list[Len(list) + 1 - k]]
\* The chart list sorted by 'title-asc', and that result sorted by
\* 'title-desc'.
TitleAscending == sortedCharts(charts, "title-asc")
ThenTitleDescending == sortedCharts(TitleAscending, "title-desc")
TitlesDistinct ==
    \A i, j \in 1..Len(charts) :
        i # j => localeCompare(charts[i].title, charts[j].title) # 0

\* C21 as stated: for every chart list, lists with two charts of the same
\* title included, sorting by 'title-asc' and then sorting the result by
\* 'title-desc' yields exactly the reverse of the 'title-asc' result.
C21_AscThenDescIsReverse ==
    LET ascending == TitleAscending IN
    sortedCharts(ascending, "title-desc") = Reversed(ascending)

\* C21, amended: sorting by 'title-asc' and then sorting the result by
\* 'title-desc' yields the reverse of the 'title-asc' result when no two
\* charts have the same title; in every case the titles come out in the
\* reverse order, and charts with the same title keep the relative order they
\* have in the 'title-asc' result, which is their order in the chart list.
C21_AscThenDescReversesTitles ==
    LET ascending == TitleAscending
        descending == sortedCharts(ascending, "title-desc")
    IN  /\ TitlesDistinct => descending = Reversed(ascending)
        /\ Len(descending) = Len(charts)
        /\ \A k \in 1..Len(charts) :
              descending[k].title = Reversed(ascending)[k].title
        /\ descending = sortedCharts(charts, "title-desc")
\* Charts with the same title among charts with another one, listed in
\* neither title order, with the select on a title order.
C21_Witness ==
    /\ sortOption = "title-asc"
    /\ Len(charts) = 3
    /\ charts[1].title = <<"b">> /\ charts[2].title = <<"a">>
    /\ charts[3].title = <<"b">> /\ charts[1] # charts[3]
    /\ ThenTitleDescending # Reversed(TitleAscending)
    /\ ThenTitleDescending # TitleAscending

\* The sorted view holds the charts of the stored chart list, each once.
ShowsStoredCharts ==
    LET shown == Displayed IN
    Len(shown) = Len(charts) /\ Placements(shown, charts) # {}

\* C22: sorting is pure.  Under every sort option the sorted view is a
\* permutation of the stored chart list, and a change of the sort option
\* leaves the stored chart list as it was, schedules no write and writes
\* nothing, so the chart order of the snapshot is not touched.
C22_SortingIsPure ==
    /\ []ShowsStoredCharts
    /\ [][ sortOption' # sortOption
               => UNCHANGED <<charts, store, timers, dashboardTitle, fileName>>
         ]_vars
\* The select on 'type-asc' shows the charts in another order than the chart
\* list has, and the snapshot holds the chart list's order.
C22_Witness ==
    /\ sortOption = "type-asc"
    /\ Len(charts) = 2
    /\ Displayed = Reversed(charts)
    /\ Displayed # charts
    /\ store = Some(JSONstringify(charts, fileName, dashboardTitle))

\* A list without its entry at position i.
WithoutPosition(list, i) ==
    SubSeq(list, 1, i - 1) \o SubSeq(list, i + 1, Len(list))
\* Ids no chart of the model carries.
AbsentIds == {<<"0">>, EmptyStr}

\* C23: removing a chart by id deletes the chart with that id and leaves
\* every other chart, their order, the dashboard title and the file name as
\* they were; with an id no chart has, the chart list is what it was.
C23_RemoveDeletesOneChart ==
    [][ /\ \A id \in ShownIds :
              removeChartOf(id)
                  => /\ \E i \in 1..Len(charts) :
                          /\ charts[i].id = id
                          /\ charts' = WithoutPosition(charts, i)
                     /\ UNCHANGED <<dashboardTitle, fileName>>
        /\ \A id \in AbsentIds : RemovedCharts(charts', id) = charts'
      ]_vars

\* C24: Clear Dashboard empties the chart list only.  The dashboard title,
\* the file name, the loaded rows, the columns and the restored flag are as
\* they were, and the step itself neither deletes nor alters the stored
\* snapshot.
C24_ClearEmptiesChartsOnly ==
    [][ handleClearDashboard
            => /\ charts' = <<>>
               /\ UNCHANGED <<dashboardTitle, fileName, data, columns,
                              isRestored, store>>
      ]_vars
\* The dashboard has been cleared: the list is empty under the title the
\* user typed, and the snapshot written before still holds a chart.
C24_Witness ==
    /\ data # Null /\ charts = <<>> /\ dashboardTitle = <<"d">>
    /\ fileName = FileA.name /\ columns = FileA.cols
    /\ store # Null /\ JSONparse(store[1]).charts # <<>>
    /\ Len(timers) = 1 /\ timers[1].charts = <<>>

\* C25: whenever fetching AI suggestions fails, the batch shown becomes
\* empty, the loading flag is false again and the chart list is what it was:
\* the failure is handled, and it adds, removes and alters no chart.
C25_FailedFetchShowsEmptyBatch ==
    [][ GetAIInsightsRejects
            => /\ aiSuggestions' = <<>>
               /\ ~isAiLoading'
               /\ UNCHANGED <<charts, data, dashboardTitle, fileName>>
      ]_vars
\* A chart added from an earlier batch is still in the list, and the
\* assistant is open on an empty batch with nothing in flight.
C25_Witness ==
    /\ isAiAssistantOpen /\ ~isAiLoading /\ aiRequests = 0
    /\ aiSuggestions = <<>>
    /\ \E i \in 1..Len(charts) : charts[i].type = "Pie"

\* What a write would store now, and the values a write can carry in the
\* specification of the autosave.
Current ==
    [charts |-> charts, fileName |-> fileName, dashboardTitle |-> dashboardTitle]
PersistCharts ==
    {ChartConfig(NumToString(ClockStart), <<"a">>, "Bar", ColX, ColX, "Count")}
RECURSIVE ListsOver(_, _)
ListsOver(S, n) ==
    IF n = 0 THEN {<<>>}
    ELSE LET shorter == ListsOver(S, n - 1) IN
         shorter \cup {Append(list, x) : list \in shorter, x \in S}
Snapshots ==
    {[charts |-> c, fileName |-> FileA.name, dashboardTitle |-> t] :
        c \in ListsOver(PersistCharts, MaxChartsFew),
        t \in {<<"d">>, getFileNameWithoutExtension(FileA.name),
               UntitledDashboard}}
Stored(v) == store = Some(JSONstringify(v.charts, v.fileName, v.dashboardTitle))

\* C26: eventual persistence.  With a row set loaded, every change of the
\* chart list, the dashboard title or the file name leaves a write pending
\* for the new values; and, the debounce timer being fair, a pending write is
\* followed by a state in which it has executed and the stored snapshot holds
\* the current chart list, file name and dashboard title, unless a further
\* change, the loss of the row set or the end of the session comes first.
C26_EventuallyPersisted ==
    /\ [][ (data' # Null /\ <<charts, dashboardTitle, fileName>>'
                              # <<charts, dashboardTitle, fileName>>)
               => timers' = <<Current'>> ]_vars
    /\ [](timers # <<>> => timers[1] \in Snapshots)
    /\ \A v \in Snapshots :
          (timers = <<v>> /\ data # Null /\ isAuthenticated)
              ~> \/ Stored(v) /\ Current = v /\ timers = <<>>
                 \/ Current # v
                 \/ data = Null
                 \/ ~isAuthenticated
\* A chart and a typed title have been written and nothing is pending.
C26_Witness ==
    /\ isAuthenticated /\ data # Null /\ timers = <<>>
    /\ Len(charts) = 1 /\ dashboardTitle = <<"d">>
    /\ Stored(Current)

\* C27: in every reachable state in which the session is unauthenticated no
\* row data is loaded, the chart list is empty, the file name is empty and
\* no snapshot write is pending, and no write executes while the session is
\* unauthenticated; this under every interleaving, a file load started
\* before a logout and completing after it included.
C27_UnauthenticatedHoldsNothing ==
    /\ [](~isAuthenticated =>
              /\ data = Null
              /\ charts = <<>>
              /\ fileName = EmptyStr
              /\ timers = <<>>)
    /\ [][TimerFires => isAuthenticated]_vars

\* C28: saving an edit while a chart with the edited id is in the list puts
\* the submitted config, which carries that id, at the position of the chart
\* with that id and leaves every other position of the list as it was: the
\* list keeps its length and its order, and no other chart changes in any
\* field.
C28_EditReplacesOneChart ==
    [][\A form \in FormStates(EnvCharts) :
         (/\ editingChart # Null
          /\ \E k \in 1..Len(charts) : charts[k].id = editingChart[1].id
          /\ FormAccepted(form.title, form.xAxis, form.yAxis)
          /\ handleSubmitWith(EnvCharts, form))
         => \E i \in 1..Len(charts) :
              /\ charts[i].id = editingChart[1].id
              /\ SubmittedConfig(form).id = charts[i].id
              /\ charts' = [charts EXCEPT ![i] = SubmittedConfig(form)]]_vars

\* C29: when a file load completes, the choice between resetting and keeping
\* the chart list and the title follows the restored flag and the file name
\* of the state in which the completion runs, not those of the state in
\* which the upload was started, whatever happened in between (another
\* load, a restore, a logout).
C29_DecisionUsesCurrentState ==
    [][\A load \in pendingLoads :
         FileReaderOnloadOf(load) =>
             IF ~isRestored \/ fileName # load.file.name
             THEN /\ charts' = <<>>
                  /\ dashboardTitle' = getFileNameWithoutExtension(load.file.name)
             ELSE UNCHANGED <<charts, dashboardTitle>>]_vars

\* C30: in every reachable state the restored flag is set only while the
\* session is authenticated and no row set is loaded, and while it is set
\* the file name is the non-empty file name of the snapshot that was
\* restored, which is the snapshot stored; every completed file load and
\* every logout leaves the flag cleared.
C30_RestoredFlagDiscipline ==
    /\ [](isRestored =>
              /\ isAuthenticated
              /\ data = Null
              /\ fileName # EmptyStr
              /\ store # Null
              /\ ~JSONparseThrows(store[1])
              /\ fileName = JSONparse(store[1]).fileName)
    /\ [][(LogoutStep \/ FileReaderOnload) => ~isRestored']_vars

====
